---- MODULE Spec2Model ----
(***************************************************************************)
(* The transposition table of src/src/tt.rs: the packed entry (TTEntry),   *)
(* the three-entry cluster (TTCluster) and the table                       *)
(* (TranspositionTable) with resize, clear, new_search, probe and save.    *)
(*                                                                         *)
(* Representation.                                                         *)
(*  - A Key (u64) is the sequence <<w3, w2, w1, w0>> of its four 16-bit    *)
(*    words, most significant first; the code reads only key >> 48 (w3)    *)
(*    and the low bits key & (len - 1).                                    *)
(*  - The table is held sparsely: `table` maps the cluster indices that    *)
(*    the keys of AllKeys address to their clusters.  No operation writes  *)
(*    a cluster that no probed key addresses, so every other cluster stays *)
(*    as clear() left it (all zero); `tableLen` is the real table.len().   *)
(*  - `slot` is the &mut TTEntry handed out by probe; the borrow ends with *)
(*    the next call on the table.                                          *)
(*  - `status` is "ok" until a call panics or leaves defined behaviour;  *)
(*    `dirty` tells whether save has run since the table was zeroed;      *)
(*    `ops` counts the calls of a behaviour of Spec.                       *)
(*  - `last` records the last call, its arguments and what it read, so     *)
(*    that a property of one call is a state predicate.                    *)
(*  - `zeroing` is the parallel iteration of clear() while it runs: which  *)
(*    worker zeroes which cluster and the clusters not yet zeroed.         *)
(*  - `racers` holds the program position of each worker that shares the   *)
(*    table with others without a lock; empty when a single thread owns it.*)
(***************************************************************************)
EXTENDS Integers, Sequences, FiniteSets, TLC

VARIABLES table, tableLen, generation8, slot, found, status, dirty, last, ops,
          zeroing, racers

vars == <<table, tableLen, generation8, slot, found, status, dirty, last, ops,
          zeroing, racers>>

(***************************************************************************)
(* Fixed-width integer helpers.                                            *)
(***************************************************************************)
RECURSIVE BitAnd(_, _)
BitAnd(a, b) ==
    IF a = 0 \/ b = 0 THEN 0
    ELSE (a % 2) * (b % 2) + 2 * BitAnd(a \div 2, b \div 2)

RECURSIVE BitOr(_, _)
BitOr(a, b) ==
    IF a = 0 THEN b
    ELSE IF b = 0 THEN a
    ELSE (IF a % 2 = 1 \/ b % 2 = 1 THEN 1 ELSE 0) + 2 * BitOr(a \div 2, b \div 2)

\* `x as u8`, `x as u16`: the low bits of a two's-complement integer.
AsU8(x) == x % 256
AsU16(x) == x % 65536
\* `x as i16`: the low 16 bits read as a signed number.
AsI16(x) == ((x + 32768) % 65536) - 32768

\* Rust's integer division truncates toward zero.
TruncDiv(a, b) ==
    IF (a >= 0) = (b > 0) THEN (IF a >= 0 THEN a ELSE -a) \div (IF b > 0 THEN b ELSE -b)
    ELSE -((IF a >= 0 THEN a ELSE -a) \div (IF b > 0 THEN b ELSE -b))

(***************************************************************************)
(* Constants of the crate that tt.rs reads.                                *)
(***************************************************************************)
CLUSTER_SIZE == 3
\* size_of::<TTCluster>(), asserted by test_size.
SIZE_OF_CLUSTER == 32
\* Depth::ONE_PLY.0 and Depth::OFFSET.0 (crate::types).
ONE_PLY == 1
OFFSET == -6
\* Bound::UPPER.0, Bound::LOWER.0, Bound::EXACT.0 (crate::types).
BOUND_UPPER == 1
BOUND_LOWER == 2
BOUND_EXACT == 3

(***************************************************************************)
(* TTEntry.                                                                *)
(***************************************************************************)
ZeroEntry ==
    [key16 |-> 0, mv16 |-> 0, value16 |-> 0, eval16 |-> 0, genbound8 |-> 0, depth8 |-> 0]

ZeroCluster == [i \in 1..CLUSTER_SIZE |-> ZeroEntry]

value(e) == e.value16
eval(e) == e.eval16
depth(e) == e.depth8 * ONE_PLY + OFFSET
is_pv(e) == BitAnd(e.genbound8, 4) /= 0
bound(e) == BitAnd(e.genbound8, 3)
generation(e) == BitAnd(e.genbound8, 248)

\* (key.0 >> 48) as u16
High16(key) == AsU16(key[1])

\* (depth.0 - Depth::OFFSET.0) / Depth::ONE_PLY.0
EncodedDepth(d) == TruncDiv(d - OFFSET, ONE_PLY)

NoMove == -1

\* The move field cleared whenever no move is given.
SaveMove_AlwaysClears(e, key, mv) == IF mv /= NoMove THEN AsU16(mv) ELSE 0

\* The move stored only into a record of another key.
SaveMove_OnlyOnMiss(e, key, mv) ==
    IF High16(key) /= e.key16 THEN (IF mv /= NoMove THEN AsU16(mv) ELSE 0)
    ELSE e.mv16

\* lines 65-69: the move field.
SaveMove(e, key, mv) ==
    IF mv /= NoMove THEN AsU16(mv)
    ELSE IF High16(key) /= e.key16 THEN 0
    ELSE e.mv16

\* The gate with >= in place of >.
OverwriteGate_AtLeast(e, key, d, b) ==
    \/ High16(key) /= e.key16
    \/ EncodedDepth(d) >= e.depth8 - 4
    \/ b = BOUND_EXACT

\* The gate with an undercut of 8 in place of 4.
OverwriteGate_Undercut8(e, key, d, b) ==
    \/ High16(key) /= e.key16
    \/ EncodedDepth(d) > e.depth8 - 8
    \/ b = BOUND_EXACT

\* lines 71-73: the overwrite gate.
OverwriteGate(e, key, d, b) ==
    \/ High16(key) /= e.key16
    \/ EncodedDepth(d) > e.depth8 - 4
    \/ b = BOUND_EXACT

\* The pv flag shifted into the generation bits.
PackGenBound_PvShift3(gen, pv, b) ==
    AsU8(BitOr(BitOr(gen, IF pv THEN 8 ELSE 0), b))

\* line 79: generation | pv << 2 | bound, as u8.
PackGenBound(gen, pv, b) ==
    AsU8(BitOr(BitOr(gen, IF pv THEN 4 ELSE 0), b))

\* The overwrite without the depth8 store of line 80.
Overwrite_KeepsDepth(e, a) ==
    [e EXCEPT !.key16 = High16(a.key),
              !.value16 = AsI16(a.value),
              !.eval16 = AsI16(a.eval),
              !.genbound8 = PackGenBound(a.generation, a.pv, a.bound)]

\* lines 76-80: the record fields written when the gate is open.
Overwrite(e, a) ==
    [e EXCEPT !.key16 = High16(a.key),
              !.value16 = AsI16(a.value),
              !.eval16 = AsI16(a.eval),
              !.genbound8 = PackGenBound(a.generation, a.pv, a.bound),
              !.depth8 = AsU8(EncodedDepth(a.depth))]

\* TTEntry::save; a is the record of its arguments.
save(e, a) ==
    LET m == [e EXCEPT !.mv16 = SaveMove(e, a.key, a.mv)]
    IN  IF OverwriteGate(e, a.key, a.depth, a.bound) THEN Overwrite(m, a) ELSE m

(***************************************************************************)
(* Keys.  The first four are keys of test_probe;    KeyZero16 has zero     *)
(* high bits, KeyLow0 addresses cluster 0.                                 *)
(***************************************************************************)
KeyFFFF == <<65535, 65535, 65535, 65535>>
Key7FFF == <<32767, 65535, 65535, 65535>>
Key3FFF == <<16383, 65535, 65535, 65535>>
Key1FFF == <<8191, 65535, 65535, 65535>>
KeyZero16 == <<0, 65535, 65535, 65535>>
KeyLow0 == <<65535, 0, 0, 0>>

AllKeys == {KeyFFFF, Key7FFF, Key3FFF, Key1FFF, KeyZero16, KeyLow0}

(***************************************************************************)
(* TranspositionTable.                                                     *)
(***************************************************************************)
\* usize::next_power_of_two: the smallest power of two >= n.
RECURSIVE PowerOfTwoFrom(_, _)
PowerOfTwoFrom(p, n) == IF p >= n THEN p ELSE PowerOfTwoFrom(2 * p, n)
NextPowerOfTwo(n) == PowerOfTwoFrom(1, n)

\* The normalization without the + 1.
NormalizeMegaBytes_NoPlusOne(n) == NextPowerOfTwo(n) \div 2

\* line 107: (mega_byte_size + 1).next_power_of_two() >> 1
NormalizeMegaBytes(n) == NextPowerOfTwo(n + 1) \div 2

\* line 108: mega_byte_size * 1024 * 1024 / size_of::<TTCluster>()
ClusterCount(n) == (NormalizeMegaBytes(n) * 1024 * 1024) \div SIZE_OF_CLUSTER

\* key.0 as usize, as far as a mask below 2^31 can see it.
Low31(key) == (key[3] % 32768) * 65536 + key[4]

\* lines 127-130, for a table that has clusters.
cluster_index(key, len) == BitAnd(Low31(key), len - 1)

\* The clusters that some key of AllKeys addresses in a table of len clusters.
Addressed(len) == IF len = 0 THEN {} ELSE {cluster_index(k, len) : k \in AllKeys}

\* lines 119-123: every cluster zeroed.
ZeroTable(len) == [i \in Addressed(len) |-> ZeroCluster]

\* saturating_add in place of wrapping_add.
WrappingAdd8_Saturating(g) == IF g + 8 > 255 THEN 255 ELSE g + 8

\* line 125: wrapping_add(8) on a u8.
WrappingAdd8(g) == (g + 8) % 256

\* line 140: the first entry in scan order that is empty or holds key16; 0 if none.
RECURSIVE ScanFrom(_, _, _)
ScanFrom(c, k16, i) ==
    IF i > CLUSTER_SIZE THEN 0
    ELSE IF c[i].key16 = 0 \/ c[i].key16 = k16 THEN i
    ELSE ScanFrom(c, k16, i + 1)
\* The scan started at the second entry.
ScanCluster_FromSecond(c, k16) == ScanFrom(c, k16, 2)

\* line 139: the scan starts at the first entry.
ScanCluster(c, k16) == ScanFrom(c, k16, 1)

\* Refresh that leaves the generation bits as they were.
Refresh_KeepsGeneration(gen, gb) == gb

\* Refresh that forgets the bound and pv bits.
Refresh_DropsLowBits(gen, gb) == gen

\* line 141: the refreshed genbound8.
Refresh(gen, gb) == BitOr(gen, BitAnd(gb, 7))

\* The score with 256 in place of 263: the bound and pv bits borrow from the age.
ReplaceScore_256(e, gen) == e.depth8 - BitAnd(256 + gen - e.genbound8, 248)

\* lines 150-151: the replacement score of an entry.
ReplaceScore(e, gen) == e.depth8 - BitAnd(263 + gen - e.genbound8, 248)

\* min_by that lets a later entry of equal score replace the earlier one.
RECURSIVE MinByFrom_LastMinimal(_, _, _, _)
MinByFrom_LastMinimal(c, gen, best, i) ==
    IF i > CLUSTER_SIZE THEN best
    ELSE MinByFrom_LastMinimal(c, gen,
                   IF ReplaceScore(c[best], gen) >= ReplaceScore(c[i], gen) THEN i ELSE best,
                   i + 1)

\* lines 146-154: Iterator::min_by keeps the earlier element unless it compares
\* Greater than the later one.
RECURSIVE MinByFrom(_, _, _, _)
MinByFrom(c, gen, best, i) ==
    IF i > CLUSTER_SIZE THEN best
    ELSE MinByFrom(c, gen,
                   IF ReplaceScore(c[best], gen) > ReplaceScore(c[i], gen) THEN i ELSE best,
                   i + 1)

\* A replacement that evicts the first entry whatever the scores.
MinBy_AlwaysFirst(c, gen) == 1

\* lines 146-156: the entry of the least score, the first of them.
MinBy(c, gen) == MinByFrom(c, gen, 1, 2)

\* probe that refreshes the replacement victim as well.
probe_cluster_RefreshesVictim(c, k16, gen) ==
    LET i == IF ScanCluster(c, k16) /= 0 THEN ScanCluster(c, k16) ELSE MinBy(c, gen)
    IN  [ei |-> i,
         found |-> ScanCluster(c, k16) /= 0 /\ c[i].key16 /= 0,
         cluster |-> [c EXCEPT ![i].genbound8 = Refresh(gen, c[i].genbound8)]]

\* probe that reports found whenever the entry holds the key's high 16 bits.
probe_cluster_FoundOnMatch(c, k16, gen) ==
    LET i == ScanCluster(c, k16)
    IN  IF i /= 0
        THEN [ei |-> i,
              found |-> c[i].key16 = k16,
              cluster |-> [c EXCEPT ![i].genbound8 = Refresh(gen, c[i].genbound8)]]
        ELSE [ei |-> MinBy(c, gen), found |-> FALSE, cluster |-> c]

\* lines 139-156 on one cluster: the entry returned, found, and the cluster after.
probe_cluster(c, k16, gen) ==
    LET i == ScanCluster(c, k16)
    IN  IF i /= 0
        THEN [ei |-> i,
              found |-> c[i].key16 /= 0,
              cluster |-> [c EXCEPT ![i].genbound8 = Refresh(gen, c[i].genbound8)]]
        ELSE [ei |-> MinBy(c, gen), found |-> FALSE, cluster |-> c]

(***************************************************************************)
(* State.                                                                  *)
(***************************************************************************)
NoSlot == [held |-> FALSE, ci |-> 0, ei |-> 0, key |-> <<0, 0, 0, 0>>, fresh |-> FALSE]

\* The entry the held slot refers to.
SlotEntry == table[slot.ci][slot.ei]

\* The save call that came last, if the last call was one.
Saved == IF last.op = "save" THEN last ELSE [op |-> "none"]

\* No clear() is running.
NotZeroing == [active |-> FALSE]

\* One thread owns the table.
NoRacers == <<>>

\* TranspositionTable::new()
Init ==
    /\ table = <<>>
    /\ tableLen = 0
    /\ generation8 = 0
    /\ slot = NoSlot
    /\ found = FALSE
    /\ status = "ok"
    /\ dirty = FALSE
    /\ last = [op |-> "new"]
    /\ ops = 0
    /\ zeroing = NotZeroing
    /\ racers = NoRacers

\* resize(mega_byte_size, thread_pool), lines 105-117.
Resize(n) ==
    /\ status = "ok"
    /\ tableLen' = ClusterCount(n)
    /\ table' = ZeroTable(ClusterCount(n))
    /\ slot' = NoSlot
    /\ dirty' = FALSE
    /\ last' = [op |-> "resize", n |-> n]
    /\ UNCHANGED <<generation8, found, status, zeroing, racers>>

\* clear() that also starts the generations over.
Clear_NewGeneration ==
    /\ status = "ok"
    /\ table' = ZeroTable(tableLen)
    /\ generation8' = 0
    /\ slot' = NoSlot
    /\ dirty' = FALSE
    /\ last' = [op |-> "clear", gen |-> generation8, len |-> tableLen, dirty |-> dirty]
    /\ UNCHANGED <<tableLen, found, status, zeroing, racers>>

\* clear(), lines 119-123, from call to return.
Clear ==
    /\ status = "ok"
    /\ table' = ZeroTable(tableLen)
    /\ slot' = NoSlot
    /\ dirty' = FALSE
    /\ last' = [op |-> "clear", gen |-> generation8, len |-> tableLen, dirty |-> dirty]
    /\ UNCHANGED <<tableLen, generation8, found, status, zeroing, racers>>

\* Consecutive new_search calls counted in `last`: start is the generation
\* before the first of them, calls how many there were.
MaxCalls == 32

\* new_search(), lines 124-126.
NewSearch ==
    /\ status = "ok"
    /\ last.op = "new_search" => last.calls < MaxCalls
    /\ generation8' = WrappingAdd8(generation8)
    /\ slot' = NoSlot
    /\ last' = [op |-> "new_search",
                gen |-> generation8,
                start |-> IF last.op = "new_search" THEN last.start ELSE generation8,
                calls |-> IF last.op = "new_search" THEN last.calls + 1 ELSE 1,
                table |-> table,
                len |-> tableLen]
    /\ UNCHANGED <<table, tableLen, found, status, dirty, zeroing, racers>>

\* probe(key), lines 135-157, on a table that has clusters.
Probe(key) ==
    /\ status = "ok"
    /\ tableLen > 0
    /\ \E ci \in {cluster_index(key, tableLen)} :
       \E r \in {probe_cluster(table[ci], High16(key), generation8)} :
           /\ table' = [table EXCEPT ![ci] = r.cluster]
           /\ slot' = [held |-> TRUE, ci |-> ci, ei |-> r.ei, key |-> key, fresh |-> TRUE]
           /\ found' = r.found
           /\ last' = [op |-> "probe", key |-> key, ci |-> ci, pre |-> table[ci],
                       gen |-> generation8, dirty |-> dirty, after |-> Saved,
                       table |-> table, len |-> tableLen]
    /\ UNCHANGED <<tableLen, generation8, status, dirty, zeroing, racers>>

\* probe(key) on a table without clusters (after new() or resize(0)): line 128
\* computes 0 - 1, which panics where overflow is checked and otherwise wraps
\* to a mask of all ones, so that the index is the key itself (its low 31
\* bits are recorded) and line 133 reads outside the table.
ProbeEmpty(key) ==
    /\ status = "ok"
    /\ tableLen = 0
    /\ status' \in {"panic", "ub"}
    /\ slot' = NoSlot
    /\ last' = [op |-> "probe", key |-> key, ci |-> Low31(key), pre |-> ZeroCluster,
                gen |-> generation8, dirty |-> dirty, after |-> Saved,
                table |-> table, len |-> tableLen]
    /\ UNCHANGED <<table, tableLen, generation8, found, dirty, zeroing, racers>>

\* save(...) on the slot probe returned, lines 52-82; a.generation is
\* tt.generation(), as every caller passes it.
Save(a) ==
    /\ status = "ok"
    /\ slot.held
    /\ a.generation = generation8
    /\ \E e \in {SlotEntry} :
           /\ table' = [table EXCEPT ![slot.ci][slot.ei] = save(e, a)]
           /\ last' = [op |-> "save", a |-> a, pre |-> e, ci |-> slot.ci, ei |-> slot.ei,
                       pkey |-> slot.key, fresh |-> slot.fresh]
    /\ slot' = [slot EXCEPT !.fresh = FALSE]
    /\ dirty' = TRUE
    /\ UNCHANGED <<tableLen, generation8, found, status, zeroing, racers>>

(***************************************************************************)
(* Inputs.                                                                 *)
(***************************************************************************)
\* resize is asked for 0..MaxMB megabytes.
MaxMB == 4
\* The number of calls in a behaviour of Spec.
MaxOps == 5

Bounds3 == {BOUND_UPPER, BOUND_LOWER, BOUND_EXACT}

\* A move with bits above the low 16 (the moved piece), as search hands it over.
MoveWithPiece == 65536 * 5 + 77

\* The keys probed and the arguments of save in Spec.
LifeKeys == {KeyFFFF, Key7FFF, KeyZero16, KeyLow0}

LifeArgs ==
    [key : {KeyFFFF, KeyZero16}, value : {20}, pv : {FALSE},
     bound : {BOUND_LOWER, BOUND_EXACT}, depth : {1, 9}, mv : {NoMove, MoveWithPiece},
     eval : {0}, generation : {generation8}]

(***************************************************************************)
(* Spec: the table from new() on, MaxOps calls long.                       *)
(***************************************************************************)
Tick == ops < MaxOps /\ ops' = ops + 1

OpResize == Tick /\ \E n \in 0..MaxMB : Resize(n)
OpClear == Tick /\ Clear
OpNewSearch == Tick /\ NewSearch
OpProbe == Tick /\ \E k \in LifeKeys : Probe(k)
OpProbeEmpty == Tick /\ \E k \in LifeKeys : ProbeEmpty(k)
OpSave == Tick /\ \E a \in LifeArgs : Save(a)

Next == OpResize \/ OpClear \/ OpNewSearch \/ OpProbe \/ OpProbeEmpty \/ OpSave

Spec == Init /\ [][Next]_vars

(***************************************************************************)
(* SpecProbe: probe on a given cluster, the cluster of the test keys of a  *)
(* 1 MB table.  Each place holds an entry saved for a key of its own, of   *)
(* any of three depths, three generations and two bound/pv patterns, or an *)
(* entry saved for a key with zero high bits, or nothing; the places never *)
(* written come last, as probe hands out the first empty place.  Every     *)
(* such cluster is one that probe, save and new_search calls produce.      *)
(***************************************************************************)
GivenLen == ClusterCount(1)
GivenIndex == cluster_index(KeyFFFF, GivenLen)

GivenKey16 == <<65535, 32767, 16383>>

\* Places never written are followed by places never written.
NeverWrittenLast(c) == \A i \in 1..(CLUSTER_SIZE - 1) : c[i] = ZeroEntry => c[i + 1] = ZeroEntry

ProbeEntries(i) ==
    {ZeroEntry,
     [key16 |-> 0, mv16 |-> 0, value16 |-> 10 * i, eval16 |-> 0, genbound8 |-> 9, depth8 |-> 7]}
    \cup
    {[key16 |-> GivenKey16[i], mv16 |-> 0, value16 |-> 10 * i, eval16 |-> 0,
      genbound8 |-> g + low, depth8 |-> d] :
        g \in {0, 8, 248}, low \in {1, 6}, d \in {7, 8, 15}}

Given(c, gen) ==
    /\ tableLen = GivenLen
    /\ table = [ZeroTable(GivenLen) EXCEPT ![GivenIndex] = c]
    /\ generation8 = gen
    /\ slot = NoSlot
    /\ found = FALSE
    /\ status = "ok"
    /\ dirty = TRUE
    /\ last = [op |-> "given"]
    /\ ops = 0
    /\ zeroing = NotZeroing
    /\ racers = NoRacers

InitProbe ==
    \E e1 \in ProbeEntries(1), e2 \in ProbeEntries(2), e3 \in ProbeEntries(3), gen \in {0, 8} :
        NeverWrittenLast(<<e1, e2, e3>>) /\ Given(<<e1, e2, e3>>, gen)

ProbeGiven == UNCHANGED ops /\ \E k \in AllKeys : Probe(k)

NextProbe == ProbeGiven

SpecProbe == InitProbe /\ [][NextProbe]_vars

(***************************************************************************)
(* Properties of probe.                                                    *)
(***************************************************************************)
\* The places of cluster c that are empty or hold the high 16 bits of key.
Qualifying(c, key) == {i \in 1..CLUSTER_SIZE : c[i].key16 = 0 \/ c[i].key16 = key[1]}

SetMin(S) == CHOOSE x \in S : \A y \in S : x <= y

\* The top five bits and the low three bits of a genbound8.
GenBits(gb) == (gb \div 8) * 8
LowBits(gb) == gb % 8

\* The score as the claim states it: depth8 less the age in generations.
AgePenalty(e, gen) == (gen - GenBits(e.genbound8)) % 256
ClaimedScore(e, gen) == e.depth8 - AgePenalty(e, gen)
FirstMinimal(c, gen) ==
    SetMin({i \in 1..CLUSTER_SIZE :
               \A j \in 1..CLUSTER_SIZE : ClaimedScore(c[i], gen) <= ClaimedScore(c[j], gen)})

WithoutLowBits(c) == [i \in 1..CLUSTER_SIZE |-> [c[i] EXCEPT !.genbound8 = GenBits(@)]]

ProbeReturned == last.op = "probe" /\ status = "ok"

\* C2: when no entry of the addressed cluster is empty or holds the key, probe
\* reports found = false and returns the first entry in scan order that
\* minimizes depth8 - ((current generation - entry generation) mod 256); the
\* bound and pv bits of the entries do not change the choice.
C2_ReplacementChoice ==
    (ProbeReturned /\ Qualifying(last.pre, last.key) = {}) =>
        /\ found = FALSE
        /\ slot.ei = FirstMinimal(last.pre, last.gen)
        /\ slot.ei = MinBy(WithoutLowBits(last.pre), last.gen)

\* A replacement in which age decides against depth: the entry returned is
\* deeper than another one, and the entries differ in their bound/pv bits.
C2_Witness ==
    /\ ProbeReturned
    /\ Qualifying(last.pre, last.key) = {}
    /\ slot.ei = 3
    /\ last.pre[3].depth8 > last.pre[1].depth8
    /\ ClaimedScore(last.pre[3], last.gen) < ClaimedScore(last.pre[1], last.gen)
    /\ ClaimedScore(last.pre[2], last.gen) = ClaimedScore(last.pre[1], last.gen)
    /\ LowBits(last.pre[3].genbound8) /= LowBits(last.pre[1].genbound8)

\* C3: when some entry of the addressed cluster is empty or holds the key,
\* probe returns the first such entry of the cluster at key & (length - 1),
\* sets its generation bits to the current generation, keeps its bits 0-2, and
\* reports found exactly when its key16 is not zero.
C3_ProbeSelectRefresh ==
    (ProbeReturned /\ Qualifying(last.pre, last.key) /= {}) =>
        \E i \in {SetMin(Qualifying(last.pre, last.key))} :
            /\ slot.held
            /\ slot.ci = Low31(last.key) % tableLen
            /\ slot.ei = i
            /\ GenBits(SlotEntry.genbound8) = generation8
            /\ LowBits(SlotEntry.genbound8) = LowBits(last.pre[i].genbound8)
            /\ found = (last.pre[i].key16 /= 0)

\* A hit on the second entry, stored in another generation with bound/pv bits.
C3_Witness ==
    /\ ProbeReturned
    /\ found
    /\ slot.ei = 2
    /\ GenBits(last.pre[2].genbound8) /= generation8
    /\ LowBits(last.pre[2].genbound8) /= 0
    /\ last.pre[1].key16 /= 0

(***************************************************************************)
(* SpecGen: the generation counter, from new() on.  new_search runs up to  *)
(* MaxCalls times in a row, between resizes and probes of one key.         *)
(***************************************************************************)
GenNewSearch == UNCHANGED ops /\ NewSearch
GenResize == UNCHANGED ops /\ Resize(1)
GenProbe == UNCHANGED ops /\ Probe(KeyFFFF)

NextGen == GenNewSearch \/ GenResize \/ GenProbe

SpecGen == Init /\ [][NextGen]_vars

(***************************************************************************)
(* Properties of the table's life cycle.                                   *)
(***************************************************************************)
\* C7 as stated: on a table nothing was saved into since it was zeroed, probe
\* reports found = false and returns a slot whose fields are all zero,
\* whatever the generation.
C7_FreshProbeAllZero ==
    (ProbeReturned /\ ~last.dirty) => (found = FALSE /\ SlotEntry = ZeroEntry)

\* C7, amended: on such a table probe reports found = false and returns a slot
\* whose key16, mv16, value16, eval16 and depth8 are zero and whose genbound8
\* is the table's current generation.
C7_FreshProbe ==
    (ProbeReturned /\ ~last.dirty) =>
        /\ found = FALSE
        /\ SlotEntry = [ZeroEntry EXCEPT !.genbound8 = generation8]

\* A probe of a zeroed table after new_search calls, the slot probed before.
C7_Witness ==
    /\ ProbeReturned
    /\ ~last.dirty
    /\ generation8 = 16
    /\ last.pre[1].genbound8 = 8

\* C8: new_search adds 8 to the generation modulo 256 and leaves the table
\* alone; the generation's low three bits are always zero; new_search calls in
\* a row bring the generation back to where they started after exactly 32
\* calls (and every multiple of 32), never sooner.
C8_GenerationWrap ==
    /\ generation8 % 8 = 0
    /\ last.op = "new_search" =>
        /\ generation8 = (last.gen + 8) % 256
        /\ table = last.table
        /\ tableLen = last.len
        /\ (generation8 = last.start) = (last.calls % 32 = 0)

\* Thirty-two calls in a row, started at generation 24 right after a probe.
C8_Witness ==
    /\ last.op = "new_search"
    /\ last.calls = 32
    /\ last.start = 24
    /\ generation8 = 24
    /\ tableLen > 0
    /\ table[GivenIndex][1].genbound8 = 24

IsPowerOfTwo(n) == \E k \in 0..30 : n = 2 ^ k

\* C9: the table length is a power of two in every reachable state.
C9_LengthPowerOfTwo == IsPowerOfTwo(tableLen)

\* The largest power of two that is at most n.
FloorPowerOfTwo(n) == CHOOSE p \in 1..n : IsPowerOfTwo(p) /\ p <= n /\ 2 * p > n

CallEntries1 ==
    {ZeroEntry} \cup
    {[key16 |-> 65535, mv16 |-> m, value16 |-> 10, eval16 |-> 5, genbound8 |-> gb, depth8 |-> d] :
        m \in {0, 77}, gb \in {2, 15}, d \in {7, 11, 12}}

CallEntries(i) ==
    {ZeroEntry,
     [key16 |-> GivenKey16[i], mv16 |-> 77, value16 |-> 10 * i, eval16 |-> 5,
      genbound8 |-> 2, depth8 |-> 12]}

InitCall ==
    \E e1 \in CallEntries1, e2 \in CallEntries(2), e3 \in CallEntries(3), gen \in {0, 8} :
        NeverWrittenLast(<<e1, e2, e3>>) /\ Given(<<e1, e2, e3>>, gen)

CallKeys == {KeyFFFF, Key1FFF, KeyZero16}

\* The arguments of save in SpecCall: 40000 is a value that does not fit i16.
CallArgs ==
    [key : CallKeys, value : {20, -32768, 40000}, pv : BOOLEAN, bound : Bounds3,
     depth : {1, 2, 5, 6}, mv : {NoMove, MoveWithPiece}, eval : {0, -7},
     generation : {generation8}]

CallProbe == UNCHANGED ops /\ last.op = "given" /\ \E k \in CallKeys : Probe(k)
CallSave == UNCHANGED ops /\ slot.fresh /\ last.after.op = "none" /\ \E a \in CallArgs : Save(a)
CallReProbe == UNCHANGED ops /\ last.op = "save" /\ \E k \in CallKeys : Probe(k)

NextCall == CallProbe \/ CallSave \/ CallReProbe

SpecCall == InitCall /\ [][NextCall]_vars

(***************************************************************************)
(* Properties of save.                                                     *)
(***************************************************************************)
\* The entry save wrote to, after the call; last.pre is the entry before it.
SavedEntry == table[last.ci][last.ei]

\* The five gated fields of an entry.
Gated(e) == <<e.key16, e.value16, e.eval16, e.genbound8, e.depth8>>

\* The five gated fields as save's arguments a encode them.
Encoded(a) ==
    <<a.key[1],
      IF a.value \in -32768..32767 THEN a.value ELSE AsI16(a.value),
      IF a.eval \in -32768..32767 THEN a.eval ELSE AsI16(a.eval),
      a.generation + (IF a.pv THEN 4 ELSE 0) + a.bound,
      a.depth - OFFSET>>

\* C4 as stated: save overwrites key16, value16, eval16, genbound8 and depth8
\* if and only if the key differs from the stored key16, or the incoming
\* encoded depth is at least the stored depth8 less 4, or the bound is EXACT;
\* otherwise it leaves the five fields as they were.
C4_OverwriteGateAtLeast ==
    last.op = "save" =>
        IF \/ last.a.key[1] /= last.pre.key16
           \/ last.a.depth - OFFSET >= last.pre.depth8 - 4
           \/ last.a.bound = BOUND_EXACT
        THEN Gated(SavedEntry) = Encoded(last.a)
        ELSE Gated(SavedEntry) = Gated(last.pre)

\* C4, amended: the same with (b) read as the code has it, the incoming encoded
\* depth greater than the stored depth8 less 4 (at least the stored depth8
\* less 3).
C4_OverwriteGate ==
    last.op = "save" =>
        IF \/ last.a.key[1] /= last.pre.key16
           \/ last.a.depth - OFFSET >= last.pre.depth8 - 3
           \/ last.a.bound = BOUND_EXACT
        THEN Gated(SavedEntry) = Encoded(last.a)
        ELSE Gated(SavedEntry) = Gated(last.pre)

\* A save of the stored key, not EXACT, exactly 4 shallower than the stored
\* depth8, with another value: the record stays.
C4_Witness ==
    /\ last.op = "save"
    /\ last.a.key[1] = last.pre.key16
    /\ last.a.bound /= BOUND_EXACT
    /\ last.a.depth - OFFSET = last.pre.depth8 - 4
    /\ last.a.value /= last.pre.value16
    /\ Gated(SavedEntry) = Gated(last.pre)

\* C5: save without a move leaves mv16 as it was when the key's high 16 bits
\* are the stored key16 and sets it to 0 when they differ, whether or not the
\* rest of the record is rewritten.
C5_MovePreservation ==
    (last.op = "save" /\ last.a.mv = NoMove) =>
        SavedEntry.mv16 = IF last.a.key[1] = last.pre.key16 THEN last.pre.mv16 ELSE 0

\* A save of the stored key without a move that rewrites the record and keeps
\* the stored move.
C5_Witness ==
    /\ last.op = "save"
    /\ last.a.mv = NoMove
    /\ last.a.key[1] = last.pre.key16
    /\ last.pre.mv16 /= 0
    /\ SavedEntry.mv16 = last.pre.mv16
    /\ Gated(SavedEntry) /= Gated(last.pre)

\* The encoded depth is more than 4 below the stored depth8 and the bound is
\* not EXACT.
MuchShallower == last.a.bound /= BOUND_EXACT /\ last.a.depth - OFFSET < last.pre.depth8 - 4

ValueDepthBound(e) == <<value(e), depth(e), bound(e)>>

\* C6 as stated: save with a key that differs from the stored key16, a bound
\* that is not EXACT and an encoded depth more than 4 below the stored depth8
\* leaves value, depth and bound as they were.
C6_GateDifferingKey ==
    (last.op = "save" /\ last.a.key[1] /= last.pre.key16 /\ MuchShallower) =>
        ValueDepthBound(SavedEntry) = ValueDepthBound(last.pre)

\* C6, amended: save with the stored key16's key, a bound that is not EXACT and
\* an encoded depth more than 4 below the stored depth8 leaves value, depth and
\* bound as they were.
C6_GateMatchingKey ==
    (last.op = "save" /\ last.a.key[1] = last.pre.key16 /\ MuchShallower) =>
        ValueDepthBound(SavedEntry) = ValueDepthBound(last.pre)

\* Such a save, with another value and another bound than the stored ones.
C6_Witness ==
    /\ last.op = "save"
    /\ last.a.key[1] = last.pre.key16
    /\ MuchShallower
    /\ last.a.value /= last.pre.value16
    /\ last.a.bound /= bound(last.pre)
    /\ ValueDepthBound(SavedEntry) = ValueDepthBound(last.pre)

(***************************************************************************)
(* Round trip.                                                             *)
(***************************************************************************)
\* The last call was probe(key), right after the first save on the slot that
\* probe(key) had returned, with the same key and arguments in range.
RoundTrip ==
    /\ ProbeReturned
    /\ last.after.op = "save"
    /\ last.after.fresh
    /\ last.after.pkey = last.after.a.key
    /\ last.key = last.after.a.key
    /\ last.after.a.value \in -32768..32767
    /\ last.after.a.eval \in -32768..32767
    /\ (last.after.a.depth - OFFSET) \div ONE_PLY \in 0..255

\* What the slot holds is what was saved.
ReadsBack(a) ==
    /\ found
    /\ value(SlotEntry) = a.value
    /\ depth(SlotEntry) = a.depth
    /\ bound(SlotEntry) = a.bound
    /\ eval(SlotEntry) = a.eval
    /\ is_pv(SlotEntry) = a.pv

\* C1 as stated: probe(key), save on the returned slot with that key, probe(key)
\* again: found, and value, depth, bound, eval and pv flag are those saved.
C1_RoundTripAnyKey == RoundTrip => ReadsBack(last.after.a)

\* The save passed the overwrite gate: the first probe had not found the key,
\* or the bound was EXACT, or the encoded depth was above the stored depth8
\* less 4.
PassedGate ==
    \/ last.after.pre.key16 /= last.key[1]
    \/ last.after.a.bound = BOUND_EXACT
    \/ last.after.a.depth - OFFSET >= last.after.pre.depth8 - 3

\* C1, amended: the same for a key whose high 16 bits are not zero and a save
\* that passes the overwrite gate.
C1_RoundTrip == (RoundTrip /\ last.key[1] /= 0 /\ PassedGate) => ReadsBack(last.after.a)

\* A round trip through a replaced entry of a full cluster, and one through a
\* hit that the depth lets through.
C1_Witness ==
    /\ RoundTrip
    /\ last.key[1] /= 0
    /\ PassedGate
    /\ last.after.pre.key16 \notin {0, last.key[1]}
    /\ last.after.a.pv
    /\ last.after.a.value = -32768
    /\ ReadsBack(last.after.a)

(***************************************************************************)
(* SpecClear: clear() and resize() as the parallel iteration they run,     *)
(* lines 119-123: the thread pool splits the clusters among its workers,   *)
(* each closure call zeroes one cluster, and for_each returns when every   *)
(* call has returned.  Three clusters of the table are followed, the two   *)
(* the keys address and the middle one; each is zero or                    *)
(* written.  resize hands clear() memory that was never initialised.       *)
(***************************************************************************)
\* The workers of the thread pool.
MaxWorkers == 2

\* The clusters followed in a table of len clusters.
ClearTracked(len) == IF len = 0 THEN {} ELSE Addressed(len) \cup {len \div 2}

\* A cluster with no field zero.
WrittenCluster ==
    [i \in 1..CLUSTER_SIZE |->
        [key16 |-> GivenKey16[i], mv16 |-> 77, value16 |-> 20, eval16 |-> -7,
         genbound8 |-> 13, depth8 |-> 7]]

\* for_each that returns as soon as one worker has finished its share.
ClearFinished_AnyWorker(z) ==
    \E w \in 1..MaxWorkers : \A i \in z.left : z.owner[i] /= w

\* lines 120-122: for_each returns when every cluster has been visited.
ClearFinished(z) == z.left = {}

InitClear ==
    /\ tableLen = GivenLen
    /\ table \in [ClearTracked(GivenLen) -> {ZeroCluster, WrittenCluster}]
    /\ generation8 \in {0, 8}
    /\ slot = NoSlot
    /\ found = FALSE
    /\ status = "ok"
    /\ dirty = TRUE
    /\ last = [op |-> "given"]
    /\ ops = 0
    /\ zeroing = NotZeroing
    /\ racers = NoRacers

\* clear() entered, line 120: par_iter_mut splits the clusters among the workers.
ClearBegin ==
    /\ status = "ok"
    /\ ~zeroing.active
    /\ \E owner \in [DOMAIN table -> 1..MaxWorkers] :
           zeroing' = [active |-> TRUE, caller |-> "clear", owner |-> owner,
                       left |-> DOMAIN table, before |-> table]
    /\ slot' = NoSlot
    /\ last' = [op |-> "zeroing"]
    /\ UNCHANGED <<table, tableLen, generation8, found, status, dirty, ops, racers>>

\* resize(n) up to its call of clear(), lines 105-115: the clusters hold
\* whatever the allocation held.
ResizeBegin(n) ==
    /\ status = "ok"
    /\ ~zeroing.active
    /\ tableLen' = ClusterCount(n)
    /\ table' \in [ClearTracked(ClusterCount(n)) -> {ZeroCluster, WrittenCluster}]
    /\ \E owner \in [ClearTracked(ClusterCount(n)) -> 1..MaxWorkers] :
           zeroing' = [active |-> TRUE, caller |-> "resize", owner |-> owner,
                       left |-> ClearTracked(ClusterCount(n)), before |-> table']
    /\ slot' = NoSlot
    /\ last' = [op |-> "zeroing"]
    /\ UNCHANGED <<generation8, found, status, dirty, ops, racers>>

\* line 121 on worker w: one of its clusters is zeroed.
ClearWorker(w) ==
    /\ zeroing.active
    /\ \E i \in zeroing.left :
           /\ zeroing.owner[i] = w
           /\ table' = [table EXCEPT ![i] = ZeroCluster]
           /\ zeroing' = [zeroing EXCEPT !.left = @ \ {i}]
    /\ UNCHANGED <<tableLen, generation8, slot, found, status, dirty, last, ops, racers>>

\* for_each returns, line 122, and clear() with it.
ClearEnd ==
    /\ zeroing.active
    /\ ClearFinished(zeroing)
    /\ zeroing' = NotZeroing
    /\ dirty' = FALSE
    /\ last' = [op |-> zeroing.caller, gen |-> generation8, len |-> tableLen,
                owner |-> zeroing.owner, before |-> zeroing.before]
    /\ UNCHANGED <<table, tableLen, generation8, slot, found, status, ops, racers>>

ClearResize == \E n \in 0..2 : ResizeBegin(n)
ClearZero == \E w \in 1..MaxWorkers : ClearWorker(w)

NextClear == ClearBegin \/ ClearResize \/ ClearZero \/ ClearEnd

SpecClear == InitClear /\ [][NextClear]_vars

\* clear() or resize() has returned.
Zeroed == ~zeroing.active /\ last.op \in {"clear", "resize"}

\* C11: when clear() returns, every field of every entry of every cluster is
\* zero, whichever worker zeroed which cluster and in whichever order, and
\* so is it when resize() returns; a probe of any key then finds nothing.
C11_ParallelClear ==
    Zeroed =>
        /\ \A i \in DOMAIN table : table[i] = ZeroCluster
        /\ \A k \in AllKeys :
               tableLen > 0 =>
                   ~probe_cluster(table[cluster_index(k, tableLen)], High16(k), generation8).found

\* clear() has returned after two workers shared clusters that were written.
C11_Witness ==
    /\ Zeroed
    /\ last.op = "clear"
    /\ \A i \in DOMAIN last.before : last.before[i] = WrittenCluster
    /\ {last.owner[i] : i \in DOMAIN last.owner} = 1..MaxWorkers

(***************************************************************************)
(* The frame of clear().                                                   *)
(***************************************************************************)
\* C12: clear() leaves the generation counter and the table length as they
\* were: after clear() the generation is the generation before it and the
\* table has the clusters it had.
C12_ClearFrame ==
    last.op = "clear" => generation8 = last.gen /\ tableLen = last.len

\* clear() of a written table in a generation other than the first.
C12_Witness ==
    /\ last.op = "clear"
    /\ last.dirty
    /\ last.gen /= 0
    /\ generation8 = last.gen
    /\ tableLen > 0

(***************************************************************************)
(* The move field against the gated fields.                                *)
(***************************************************************************)
\* C13: save with a move sets mv16 to the low 16 bits of the move whether or
\* not the gate lets the rest be rewritten; when the key's high 16 bits are
\* the stored key16, the bound is not EXACT and the encoded depth is at most
\* the stored depth8 less 4, mv16 is all that save changes.
C13_MoveAlwaysStored ==
    (last.op = "save" /\ last.a.mv /= NoMove) =>
        /\ SavedEntry.mv16 = last.a.mv % 65536
        /\ (/\ last.a.key[1] = last.pre.key16
            /\ last.a.bound /= BOUND_EXACT
            /\ last.a.depth - OFFSET <= last.pre.depth8 - 4)
           => SavedEntry = [last.pre EXCEPT !.mv16 = last.a.mv % 65536]

\* A save with a move on a record of the same key that held no move, not
\* EXACT and exactly 4 shallower, with another value: only the move changes.
C13_Witness ==
    /\ last.op = "save"
    /\ last.a.mv = MoveWithPiece
    /\ last.a.key[1] = last.pre.key16
    /\ last.a.bound /= BOUND_EXACT
    /\ last.a.depth - OFFSET = last.pre.depth8 - 4
    /\ last.a.value /= last.pre.value16
    /\ last.pre.mv16 = 0
    /\ SavedEntry.mv16 = 77
    /\ Gated(SavedEntry) = Gated(last.pre)

(***************************************************************************)
(* SpecStale: a full cluster in which one entry, the stale one, is never   *)
(* probed again while the search goes on: new_search, then a probe of a    *)
(* key the cluster does not hold and a save of that key at the current     *)
(* generation, over and over.  The run ends when probe hands out the stale *)
(* entry as the victim.                                                    *)
(***************************************************************************)
\* The stored depth8 of the stale entry and of the others.
StaleDepths == {7, 255}
FreshDepths == {8, 15}

StaleKey16 == High16(KeyFFFF)
StaleKeys == {Key7FFF, Key3FFF, Key1FFF}

\* The place of the stale entry in cluster c.
StalePlace(c) == CHOOSE i \in 1..CLUSTER_SIZE : c[i].key16 = StaleKey16

StaleEntry(d) ==
    [key16 |-> StaleKey16, mv16 |-> 0, value16 |-> 10, eval16 |-> 0,
     genbound8 |-> BOUND_EXACT, depth8 |-> d]

FreshEntry(key, d, g) ==
    [key16 |-> High16(key), mv16 |-> 0, value16 |-> 20, eval16 |-> 0,
     genbound8 |-> g + BOUND_EXACT, depth8 |-> d]

\* new_search calls in a row without a probe between them.
MaxSkip == 1

\* The stale entry comes last in scan order, where a tie goes against it; it
\* was saved in generation 0, the others in generation 0 or, a round of
\* generations ago, in generation 8.
InitStale ==
    \E m \in StaleDepths, d2 \in FreshDepths, g \in {0, 8} :
        Given(<<FreshEntry(Key7FFF, d2, g), FreshEntry(Key3FFF, 8, 0), StaleEntry(m)>>, 0)

\* probe has handed out the stale entry as the victim.
StaleChosen ==
    /\ last.op = "probe"
    /\ slot.fresh
    /\ last.pre[slot.ei].key16 = StaleKey16

StaleArgs ==
    [key : StaleKeys, value : {20}, pv : {FALSE}, bound : {BOUND_EXACT},
     depth : {d + OFFSET : d \in FreshDepths}, mv : {NoMove}, eval : {0},
     generation : {generation8}]

StaleNewSearch ==
    /\ UNCHANGED ops
    /\ ~slot.fresh
    /\ last.op = "new_search" => last.calls < MaxSkip
    /\ NewSearch

StaleProbe ==
    /\ UNCHANGED ops
    /\ ~slot.fresh
    /\ \E k \in StaleKeys :
           /\ \A i \in 1..CLUSTER_SIZE : table[GivenIndex][i].key16 /= High16(k)
           /\ Probe(k)

StaleSave ==
    /\ UNCHANGED ops
    /\ slot.fresh
    /\ ~StaleChosen
    /\ \E a \in StaleArgs : a.key = slot.key /\ Save(a)

NextStale == StaleNewSearch \/ StaleProbe \/ StaleSave

\* new_search keeps being called and new keys keep being probed and saved.
SpecStale ==
    /\ InitStale
    /\ [][NextStale]_vars
    /\ SF_vars(StaleNewSearch)
    /\ WF_vars(StaleProbe)
    /\ WF_vars(StaleSave)

\* Every other entry of the cluster is deeper than the stale one.
StaleShallowest ==
    \A i \in 1..CLUSTER_SIZE :
        i /= StalePlace(table[GivenIndex]) =>
            table[GivenIndex][i].depth8 > table[GivenIndex][StalePlace(table[GivenIndex])].depth8

OldDeepNewShallow(i, j) ==
    /\ AgePenalty(last.pre[i], last.gen) = 8
    /\ AgePenalty(last.pre[j], last.gen) = 0
    /\ last.pre[i].depth8 = last.pre[j].depth8 + 8

RaceWorkers == {1, 2}

\* The saves of the workers: no two agree in value, eval, depth, bound or pv.
RaceArgs ==
    {[key |-> KeyFFFF, value |-> 20, pv |-> FALSE, bound |-> BOUND_LOWER, depth |-> 1,
      mv |-> NoMove, eval |-> 1, generation |-> generation8],
     [key |-> Key7FFF, value |-> 30, pv |-> TRUE, bound |-> BOUND_EXACT, depth |-> 9,
      mv |-> MoveWithPiece, eval |-> 2, generation |-> generation8]}

RaceKeys == {a.key : a \in RaceArgs}

\* A worker between calls.
RaceIdle == [pc |-> "idle"]

\* lines 76-80 in program order: the store after the store of field f.
NextStore(f) ==
    CASE f = "key16" -> "value16"
      [] f = "value16" -> "eval16"
      [] f = "eval16" -> "genbound8"
      [] f = "genbound8" -> "depth8"
      [] f = "depth8" -> "idle"

InitRace ==
    /\ tableLen = GivenLen
    /\ table = ZeroTable(GivenLen)
    /\ generation8 = 8
    /\ slot = NoSlot
    /\ found = FALSE
    /\ status = "ok"
    /\ dirty = FALSE
    /\ last = [op |-> "given"]
    /\ ops = 0
    /\ zeroing = NotZeroing
    /\ \E n \in RaceWorkers : racers = [w \in 1..n |-> RaceIdle]

RaceFrame == UNCHANGED <<tableLen, generation8, slot, found, status, dirty, last, ops, zeroing>>

\* probe(key) by worker w, lines 135-157.
RaceProbe(w, key) ==
    /\ racers[w].pc \in {"idle", "probed"}
    /\ \E ci \in {cluster_index(key, tableLen)} :
       \E r \in {probe_cluster(table[ci], High16(key), generation8)} :
           /\ table' = [table EXCEPT ![ci] = r.cluster]
           /\ racers' = [racers EXCEPT ![w] =
                  [pc |-> "probed", ci |-> ci, ei |-> r.ei, key |-> key, found |-> r.found]]
    /\ RaceFrame

\* save(..) entered by worker w on the entry its probe returned, lines 65-69.
RaceSaveMove(w, a) ==
    /\ racers[w].pc = "probed"
    /\ a.key = racers[w].key
    /\ \E ci \in {racers[w].ci}, ei \in {racers[w].ei} :
           table' = [table EXCEPT ![ci][ei].mv16 = SaveMove(table[ci][ei], a.key, a.mv)]
    /\ racers' = [racers EXCEPT ![w] =
           [pc |-> "gate", ci |-> racers[w].ci, ei |-> racers[w].ei, key |-> a.key, a |-> a]]
    /\ RaceFrame

\* lines 71-73 by worker w: the gate is read.
RaceGate(w) ==
    /\ racers[w].pc = "gate"
    /\ \E e \in {table[racers[w].ci][racers[w].ei]}, a \in {racers[w].a} :
           racers' = [racers EXCEPT ![w] =
               IF OverwriteGate(e, a.key, a.depth, a.bound)
               THEN [@ EXCEPT !.pc = "key16"]
               ELSE RaceIdle]
    /\ UNCHANGED table
    /\ RaceFrame

\* One store of lines 76-80 by worker w.
RaceStore(w) ==
    /\ racers[w].pc \in {"key16", "value16", "eval16", "genbound8", "depth8"}
    /\ \E ci \in {racers[w].ci}, ei \in {racers[w].ei}, f \in {racers[w].pc} :
           /\ table' = [table EXCEPT ![ci][ei][f] = Overwrite(table[ci][ei], racers[w].a)[f]]
           /\ racers' = [racers EXCEPT ![w] =
                  IF NextStore(f) = "idle" THEN RaceIdle ELSE [@ EXCEPT !.pc = NextStore(f)]]
    /\ RaceFrame

RaceProbes == \E w \in DOMAIN racers, k \in RaceKeys : RaceProbe(w, k)
RaceSaves == \E w \in DOMAIN racers, a \in RaceArgs : RaceSaveMove(w, a)
RaceGates == \E w \in DOMAIN racers : RaceGate(w)
RaceStores == \E w \in DOMAIN racers : RaceStore(w)

NextRace == RaceProbes \/ RaceSaves \/ RaceGates \/ RaceStores

SpecRace == InitRace /\ [][NextRace]_vars

\* What identifies the save an entry came from.
Origin(e) == <<e.key16, e.value16, e.eval16, e.depth8, bound(e), is_pv(e)>>

\* The same of the arguments a of a save call.
OriginOf(a) == <<a.key[1], a.value, a.eval, a.depth - OFFSET, a.bound, a.pv>>

\* Entry e is all zero or as one save call writes it.
FromOneSave(e) ==
    \/ Origin(e) = Origin(ZeroEntry)
    \/ \E a \in RaceArgs : Origin(e) = OriginOf(a)

\* No worker is inside save.
NoSaveRunning == \A w \in DOMAIN racers : racers[w].pc \in {"idle", "probed"}

\* C16: with one worker, whenever no save is running, the key16, value16,
\* eval16, depth8, bound and pv of every entry come from one save call or are
\* all zero.  (With two workers an entry of mixed origin is reached: see
\* C16_Witness.)
C16_OneWorkerUntorn ==
    (Len(racers) = 1 /\ NoSaveRunning) =>
        \A i \in 1..CLUSTER_SIZE : FromOneSave(table[GivenIndex][i])

\* Two workers: an entry holds the key16 of the save of Key7FFF and the
\* value16 and depth8 of a save of KeyFFFF, no save is running, and a probe of
\* Key7FFF has just returned that entry with found = true.
C16_Witness ==
    /\ Len(racers) = 2
    /\ \E w \in DOMAIN racers, i \in 1..CLUSTER_SIZE :
           /\ racers[w].pc = "probed"
           /\ racers[w].key = Key7FFF
           /\ racers[w].found
           /\ racers[w].ei = i
           /\ racers[3 - w].pc = "idle"
           /\ table[GivenIndex][i].key16 = High16(Key7FFF)
           /\ table[GivenIndex][i].value16 = 20
           /\ table[GivenIndex][i].depth8 = 1 - OFFSET
           /\ ~FromOneSave(table[GivenIndex][i])

(***************************************************************************)
(* Keys whose high 16 bits are zero.                                       *)
(***************************************************************************)
\* The call before the last probe was a save of a key with zero high bits on
\* the slot that the probe of that key had returned.
AfterZeroKeySave ==
    /\ last.after.op = "save"
    /\ last.after.fresh
    /\ last.after.a.key[1] = 0
    /\ last.after.pkey = last.after.a.key

\* C17: a probe of a key whose high 16 bits are 0 never reports found; a save
\* of such a key on the slot its probe returned leaves key16 = 0 there; and
\* the next probe, of any key, that finds no earlier entry empty or holding
\* its key returns that slot as an empty one.
C17_ZeroKeyNeverFound ==
    /\ (ProbeReturned /\ last.key[1] = 0) => ~found
    /\ (last.op = "save" /\ last.fresh /\ last.a.key[1] = 0 /\ last.pkey = last.a.key)
           => SavedEntry.key16 = 0
    /\ (/\ ProbeReturned
        /\ AfterZeroKeySave
        /\ last.ci = last.after.ci
        /\ \A i \in 1..(last.after.ei - 1) : i \notin Qualifying(last.pre, last.key))
           => (slot.ei = last.after.ei /\ ~found)

\* A save of a key with zero high bits over the victim of a full cluster, and
\* then a probe of another key that is handed the saved record as empty.
C17_Witness ==
    /\ ProbeReturned
    /\ AfterZeroKeySave
    /\ last.after.pre.key16 /= 0
    /\ last.key = Key1FFF
    /\ slot.ei = last.after.ei
    /\ SlotEntry.key16 = 0
    /\ SlotEntry.value16 = last.after.a.value
    /\ ~found

(***************************************************************************)
(* SpecShape: the table as the search uses it, from resize(1) on: every    *)
(* save goes to the slot that the probe just before it returned, with the  *)
(* key of that probe, and every key has non-zero high 16 bits.             *)
(***************************************************************************)
\* The number of calls in a behaviour of SpecShape.
MaxShapeOps == 9

ShapeKeys == {KeyFFFF, Key7FFF, Key3FFF, Key1FFF}

ShapeArgs ==
    [key : ShapeKeys, value : {20}, pv : {FALSE}, bound : {BOUND_LOWER, BOUND_EXACT},
     depth : {1, 9}, mv : {NoMove}, eval : {0}, generation : {generation8}]

InitShape ==
    /\ tableLen = GivenLen
    /\ table = ZeroTable(GivenLen)
    /\ generation8 = 0
    /\ slot = NoSlot
    /\ found = FALSE
    /\ status = "ok"
    /\ dirty = FALSE
    /\ last = [op |-> "resize", n |-> 1]
    /\ ops = 0
    /\ zeroing = NotZeroing
    /\ racers = NoRacers

ShapeTick == ops < MaxShapeOps /\ ops' = ops + 1

ShapeNewSearch == ShapeTick /\ last.op = "save" /\ NewSearch
ShapeProbe == ShapeTick /\ ~slot.fresh /\ \E k \in ShapeKeys : Probe(k)
ShapeSave == ShapeTick /\ slot.fresh /\ \E a \in ShapeArgs : a.key = slot.key /\ Save(a)

NextShape == ShapeNewSearch \/ ShapeProbe \/ ShapeSave

SpecShape == InitShape /\ [][NextShape]_vars

\* The entries of cluster c that are not empty come first in scan order.
NonEmptyPrefix(c) == \A i \in 1..(CLUSTER_SIZE - 1) : c[i].key16 = 0 => c[i + 1].key16 = 0

\* No two entries of cluster c hold the same key16.
DistinctKeys(c) ==
    \A i, j \in 1..CLUSTER_SIZE : (i /= j /\ c[i].key16 /= 0) => c[i].key16 /= c[j].key16

\* C18: when every save goes to the slot of the probe just before it with
\* that probe's key, and no key has zero high 16 bits, the non-empty entries
\* of every cluster are a prefix of the scan order, no two entries of a
\* cluster hold the same key16, and a probe of a key that the cluster holds
\* returns the entry holding it with found = true.
C18_ClusterShape ==
    /\ \A ci \in DOMAIN table : NonEmptyPrefix(table[ci]) /\ DistinctKeys(table[ci])
    /\ (ProbeReturned /\ \E i \in 1..CLUSTER_SIZE : last.pre[i].key16 = last.key[1])
           => (found /\ SlotEntry.key16 = last.key[1])

\* A hit on the third entry of a full cluster of which an entry has been
\* replaced in a later generation.
C18_Witness ==
    /\ ProbeReturned
    /\ found
    /\ slot.ei = CLUSTER_SIZE
    /\ \A i \in 1..CLUSTER_SIZE : last.pre[i].key16 /= 0
    /\ \E i \in 1..CLUSTER_SIZE : last.pre[i].key16 = High16(Key1FFF)
    /\ generation8 /= 0

(***************************************************************************)
(* The cluster index.                                                      *)
(***************************************************************************)
\* C19: in every probe, on every table that new(), resize(n), clear() and
\* new_search() produce, the cluster index key & (length - 1) is less than
\* the table length: the assertion of get_mut_cluster holds and the access
\* is inside the table.
C19_IndexInBounds ==
    last.op = "probe" => (status = "ok" /\ last.ci < tableLen)

(***************************************************************************)
(* The frame of probe.                                                     *)
(***************************************************************************)
\* Entry e without its generation bits.
WithoutGeneration(e) == [e EXCEPT !.genbound8 = LowBits(@)]

\* C20: probe leaves the generation and the length of the table as they
\* were, and every entry too, save for the generation bits of the one entry
\* it returns; when no entry is empty or holds the key, it changes nothing.
C20_ProbeFrame ==
    ProbeReturned =>
        /\ generation8 = last.gen
        /\ tableLen = last.len
        /\ DOMAIN table = DOMAIN last.table
        /\ \A ci \in DOMAIN table : \A i \in 1..CLUSTER_SIZE :
               /\ WithoutGeneration(table[ci][i]) = WithoutGeneration(last.table[ci][i])
               /\ (ci /= slot.ci \/ i /= slot.ei) => table[ci][i] = last.table[ci][i]
        /\ Qualifying(last.pre, last.key) = {} => table = last.table

\* A probe that returns a victim saved in another generation, and leaves it so.
C20_Witness ==
    /\ ProbeReturned
    /\ Qualifying(last.pre, last.key) = {}
    /\ GenBits(SlotEntry.genbound8) /= generation8
    /\ table = last.table
    /\ \E i \in 1..CLUSTER_SIZE : GenBits(last.pre[i].genbound8) = generation8

====
